---------------------------- MODULE Spec2Model ----------------------------
(***************************************************************************)
(* Model of the genericspace gravity simulation.                           *)
(*                                                                         *)
(*   physics.rs  PhysicsSpace<K,S>::tick  (direct mode: prune, merge,      *)
(*               retain, leapfrog integration)                             *)
(*   types.rs    EuclideanSpace<K> (vector arithmetic, distance)           *)
(*   barnes_hut.rs  Bounds, QuadTree (insert, calculate_force), build_tree *)
(*                                                                         *)
(* Numbers.  The field K of physics.rs is modelled as fixed-point numbers: *)
(* the integer n stands for n / Scale, products, inverses and roots are    *)
(* rounded to that grid.  The f32 of barnes_hut.rs is modelled by exact    *)
(* rationals <<n, d>> in lowest terms, so that what is observed of the     *)
(* tree is the algorithm and not rounding.                                 *)
(* Sequences are indexed from 1: the Rust index i is i + 1 here.           *)
(***************************************************************************)
EXTENDS Integers, Sequences, FiniteSets, Bags, TLC

(***************************************************************************)
(* Bounds of the model.                                                    *)
(***************************************************************************)
MaxElements == 3
MaxTicks == 2
MaxParticles == 3

(***************************************************************************)
(* The field K (types.rs Field, lib.rs `impl Field for f64`).              *)
(***************************************************************************)
Scale == 8

Abs(n) == IF n < 0 THEN -n ELSE n

Sign(n) == IF n < 0 THEN -1 ELSE 1

\* n / d rounded to the nearest integer, ties away from zero (d # 0)
RoundDiv(n, d) == Sign(n) * Sign(d) * ((2 * Abs(n) + Abs(d)) \div (2 * Abs(d)))

KZero == 0

KOne == Scale

\* 1/0 is the largest magnitude of the model (f64: infinity)
KInfinity == 64 * Scale

KAdd(a, b) == a + b

KSub(a, b) == a - b

KMul(a, b) == RoundDiv(a * b, Scale)

KInv(a) == IF a = 0 THEN KInfinity ELSE RoundDiv(Scale * Scale, a)

KIsZero(a) == a = 0

RECURSIVE ISqrtBetween(_, _, _)
\* the largest r in lo..hi with r * r <= n (lo * lo <= n)
ISqrtBetween(n, lo, hi) ==
    IF lo >= hi THEN lo
    ELSE LET mid == (lo + hi + 1) \div 2
         IN IF mid * mid <= n THEN ISqrtBetween(n, mid, hi)
            ELSE ISqrtBetween(n, lo, mid - 1)

\* pow(0.5): the square root of a / Scale on the grid, rounded down
KPowHalf(a) == IF a <= 0 THEN 0 ELSE ISqrtBetween(a * Scale, 0, a * Scale)

(***************************************************************************)
(* types.rs: EuclideanSpace<K>                                             *)
(***************************************************************************)
add(first, second) == <<KAdd(first[1], second[1]), KAdd(first[2], second[2])>>

sub(first, second) == <<KSub(first[1], second[1]), KSub(first[2], second[2])>>

mul(scalar, vector) == <<KMul(scalar, vector[1]), KMul(scalar, vector[2])>>

scalar_product(first, second) ==
    KAdd(KMul(first[1], second[1]), KMul(first[2], second[2]))

distance(first, second) ==
    LET diff == sub(second, first)
    IN KPowHalf(scalar_product(diff, diff))

(***************************************************************************)
(* physics.rs: ObjectStatus, PhysicsObject                                 *)
(***************************************************************************)
Default == [kind |-> "Default", into |-> 0]

Deleted == [kind |-> "Deleted", into |-> 0]

MergedInto(k) == [kind |-> "MergedInto", into |-> k]

PhysicsObject_new(position_vector, direction_vector, mass) ==
    [position_vector |-> position_vector,
     direction_vector |-> direction_vector,
     acceleration_vector |-> <<KZero, KZero>>,
     mass |-> mass,
     status |-> Default]

clone_change_position(obj, pos_vec) == [obj EXCEPT !.position_vector = pos_vec]


\* physics.rs 203-235: the particle that replaces f when s is merged into it
merge(f, s) ==
    LET inv == KInv(KAdd(f.mass, s.mass))
    IN [position_vector |->
            mul(inv, add(mul(f.mass, f.position_vector),
                         mul(s.mass, s.position_vector))),
        direction_vector |->
            mul(inv, add(mul(f.mass, f.direction_vector),
                         mul(s.mass, s.direction_vector))),
        acceleration_vector |->
            mul(inv, add(mul(f.mass, f.acceleration_vector),
                         mul(s.mass, s.acceleration_vector))),
        status |-> Default,
        mass |-> KAdd(f.mass, s.mass)]

\* the closure without the guard on the old position
gravity_effect_unguarded(g, e1, old_pos, e2) ==
    LET dist == distance(e2.position_vector, e1.position_vector)
    IN IF ~KIsZero(dist)
       THEN mul(KMul(KMul(e2.mass, g), KInv(KMul(dist, dist))),
                mul(KInv(dist), sub(e2.position_vector, e1.position_vector)))
       ELSE <<KZero, KZero>>

\* physics.rs 180-199: the closure mapped over self.elements
gravity_effect(g, e1, old_pos, e2) ==
    LET dist == distance(e2.position_vector, e1.position_vector)
        old_distance == distance(e2.position_vector, old_pos)
    IN IF ~(KIsZero(dist) \/ KIsZero(old_distance))
       THEN LET distance_vector == sub(e2.position_vector, e1.position_vector)
                distance_unit_vector == mul(KInv(dist), distance_vector)
                acc == KMul(KMul(e2.mass, g), KInv(KMul(dist, dist)))
            IN mul(acc, distance_unit_vector)
       ELSE <<KZero, KZero>>

RECURSIVE fold_effects(_, _, _, _, _)
\* physics.rs 200: fold of the first n effects, starting from zero
fold_effects(elems, g, e1, old_pos, n) ==
    IF n = 0 THEN <<KZero, KZero>>
    ELSE add(fold_effects(elems, g, e1, old_pos, n - 1),
             gravity_effect(g, e1, old_pos, elems[n]))

\* physics.rs 176-201
acceleration(elems, g, e1, old_pos) ==
    fold_effects(elems, g, e1, old_pos, Len(elems))

\* physics.rs 129-160
leapfrog_integration(elems, g, obj) ==
    LET zeropointfive == KInv(KAdd(KOne, KOne))
        next_pos == add(add(obj.position_vector, obj.direction_vector),
                        mul(zeropointfive, obj.acceleration_vector))
        next_acc == acceleration(elems, g, clone_change_position(obj, next_pos),
                                 obj.position_vector)
        next_dir == add(obj.direction_vector,
                        mul(zeropointfive, add(next_acc, obj.acceleration_vector)))
    IN [position_vector |-> next_pos,
        direction_vector |-> next_dir,
        acceleration_vector |-> next_acc,
        mass |-> obj.mass,
        status |-> obj.status]

\* the cutoff with the comparison turned around
too_far_reversed(obj, r) == distance(<<KZero, KZero>>, obj.position_vector) < r

\* physics.rs 258-259: the radius cutoff
too_far(obj, r) == distance(<<KZero, KZero>>, obj.position_vector) > r

\* physics.rs 295-296: the merge threshold
too_close(a, b, eps) == distance(a.position_vector, b.position_vector) < eps

\* a loop body that, when elems[i] is itself merged, records elems[i] as the
\* target of elems[j] instead of the particle elems[i] was merged into
checkMerge_body_chaining(elems, eps, i, j) ==
    IF too_close(elems[i], elems[j], eps)
    THEN CASE elems[i].status.kind = "Default" ->
                [elems EXCEPT ![i] = merge(elems[i], elems[j]),
                              ![j].status = MergedInto(i)]
           [] elems[i].status.kind = "MergedInto" ->
                LET k == elems[i].status.into
                IN [elems EXCEPT ![k] = merge(elems[k], elems[j]),
                                 ![j].status = MergedInto(i)]
           [] OTHER -> elems
    ELSE elems

\* physics.rs 295-312: the body of checkMerge's loop for one j
checkMerge_body(elems, eps, i, j) ==
    IF too_close(elems[i], elems[j], eps)
    THEN CASE elems[i].status.kind = "Default" ->
                [elems EXCEPT ![i] = merge(elems[i], elems[j]),
                              ![j].status = MergedInto(i)]
           [] elems[i].status.kind = "MergedInto" ->
                LET k == elems[i].status.into
                IN [elems EXCEPT ![k] = merge(elems[k], elems[j]),
                                 ![j].status = MergedInto(k)]
           [] OTHER -> elems
    ELSE elems

\* a retain that only drops the deleted particles
retain_merged(elems) == SelectSeq(elems, LAMBDA e : e.status # Deleted)

\* physics.rs 283: elements.retain(|e| e.status == ObjectStatus::Default)
retain(elems) == SelectSeq(elems, LAMBDA e : e.status = Default)

RECURSIVE integrate_in_place_upto(_, _, _)
\* the first n particles integrated one after the other in the array itself
integrate_in_place_upto(elems, g, n) ==
    IF n = 0 THEN elems
    ELSE LET prev == integrate_in_place_upto(elems, g, n - 1)
         IN [prev EXCEPT ![n] = leapfrog_integration(prev, g, prev[n])]

\* an integration in place: each particle sees the new state of those before it
integrate_in_place(elems, g) == integrate_in_place_upto(elems, g, Len(elems))

\* physics.rs 317-320: every particle integrated against the frozen array
integrate_all(elems, g) ==
    [k \in 1..Len(elems) |-> leapfrog_integration(elems, g, elems[k])]

(***************************************************************************)
(* barnes_hut.rs: f32 as exact rationals <<numerator, denominator>>.       *)
(***************************************************************************)
RECURSIVE GCD(_, _)
GCD(a, b) == IF b = 0 THEN a ELSE GCD(b, a % b)

\* n / d in lowest terms with a positive denominator (d # 0)
Rat(n, d) ==
    LET g == GCD(Abs(n), Abs(d))
    IN <<Sign(d) * (n \div g), Abs(d) \div g>>

RInt(n) == <<n, 1>>

RZero == RInt(0)

RAdd(a, b) == Rat(a[1] * b[2] + b[1] * a[2], a[2] * b[2])

RSub(a, b) == Rat(a[1] * b[2] - b[1] * a[2], a[2] * b[2])

RMul(a, b) == Rat(a[1] * b[1], a[2] * b[2])

RDiv(a, b) == Rat(a[1] * b[2], a[2] * b[1])

RLt(a, b) == a[1] * b[2] < b[1] * a[2]

RGe(a, b) == ~RLt(a, b)

RMax(a, b) == IF RLt(a, b) THEN b ELSE a

RMin(a, b) == IF RLt(b, a) THEN b ELSE a

RHalf == Rat(1, 2)

(***************************************************************************)
(* barnes_hut.rs 11-65: Bounds                                             *)
(***************************************************************************)
Bounds_new(x, y, width, height) ==
    [x |-> x, y |-> y, width |-> width, height |-> height]

contains(b, px, py) ==
    /\ RGe(px, b.x)
    /\ RLt(px, RAdd(b.x, b.width))
    /\ RGe(py, b.y)
    /\ RLt(py, RAdd(b.y, b.height))

center_x(b) == RAdd(b.x, RMul(b.width, RHalf))

center_y(b) == RAdd(b.y, RMul(b.height, RHalf))

\* 0 = NW, 1 = NE, 2 = SW, 3 = SE
quadrant(b, px, py) ==
    LET east == RGe(px, center_x(b))
        north == RGe(py, center_y(b))
    IN CASE north /\ ~east -> 0
         [] north /\ east -> 1
         [] ~north /\ ~east -> 2
         [] ~north /\ east -> 3

subdivide(b, q) ==
    LET half_w == RMul(b.width, RHalf)
        half_h == RMul(b.height, RHalf)
        cx == center_x(b)
        cy == center_y(b)
    IN CASE q = 0 -> Bounds_new(b.x, cy, half_w, half_h)
         [] q = 1 -> Bounds_new(cx, cy, half_w, half_h)
         [] q = 2 -> Bounds_new(b.x, b.y, half_w, half_h)
         [] q = 3 -> Bounds_new(cx, b.y, half_w, half_h)

(***************************************************************************)
(* barnes_hut.rs 11-65: Bounds in f32 arithmetic.  The rationals above are *)
(* f32 wherever every sum is representable; where the width of a Bounds is *)
(* of the order of the spacing of the floats around its edges they are     *)
(* not.  Here a float in [0, 2) is the integer n that counts its multiples *)
(* of 2^-26, and a sum is rounded as f32 rounds it: to the nearest float,  *)
(* ties to the even mantissa (24 bits).                                    *)
(***************************************************************************)
F32One == 2^26

\* the spacing of the floats of the binade of n
ulp(n) ==
    IF n < 2^24 THEN 1
    ELSE IF n < 2^25 THEN 2
    ELSE IF n < 2^26 THEN 4
    ELSE 8

\* the float nearest to n
fl(n) ==
    LET u == ulp(n)
        lo == (n \div u) * u
        r == n - lo
    IN IF 2 * r < u THEN lo
       ELSE IF 2 * r > u THEN lo + u
       ELSE IF (lo \div u) % 2 = 0 THEN lo ELSE lo + u

f32_add(a, b) == fl(a + b)

\* a * 0.5, exact for the even n
f32_half(a) == a \div 2

contains_f32(r, px, py) ==
    /\ px >= r.x
    /\ px < f32_add(r.x, r.width)
    /\ py >= r.y
    /\ py < f32_add(r.y, r.height)

center_x_f32(r) == f32_add(r.x, f32_half(r.width))

center_y_f32(r) == f32_add(r.y, f32_half(r.height))

quadrant_f32(r, px, py) ==
    LET east == px >= center_x_f32(r)
        north == py >= center_y_f32(r)
    IN CASE north /\ ~east -> 0
         [] north /\ east -> 1
         [] ~north /\ ~east -> 2
         [] ~north /\ east -> 3

subdivide_f32(r, q) ==
    LET half_w == f32_half(r.width)
        half_h == f32_half(r.height)
        cx == center_x_f32(r)
        cy == center_y_f32(r)
    IN CASE q = 0 -> Bounds_new(r.x, cy, half_w, half_h)
         [] q = 1 -> Bounds_new(cx, cy, half_w, half_h)
         [] q = 2 -> Bounds_new(r.x, r.y, half_w, half_h)
         [] q = 3 -> Bounds_new(cx, r.y, half_w, half_h)

(***************************************************************************)
(* barnes_hut.rs 69-171: QuadTree.  A tree is a function from the paths of *)
(* its nodes (sequences of quadrants, <<>> the root) to the nodes; the     *)
(* field `children` says whether the four children of a node exist, and    *)
(* particle_index is <<>> for None and <<index>> for Some(index).          *)
(***************************************************************************)
empty(bounds) ==
    [bounds |-> bounds,
     center_of_mass |-> <<RZero, RZero>>,
     total_mass |-> RZero,
     children |-> FALSE,
     particle_index |-> <<>>]

Quadrants == 0..3

\* barnes_hut.rs 164-171: the four empty children of the node at path p
subdivided(t, p) ==
    [c \in DOMAIN t \cup {Append(p, q) : q \in Quadrants} |->
        IF c = p THEN [t[p] EXCEPT !.children = TRUE]
        ELSE IF c \in DOMAIN t THEN t[c]
        ELSE empty(subdivide(t[p].bounds, c[Len(c)]))]

\* barnes_hut.rs 108-114: the aggregates of a node after one more particle
aggregated(n, pos, mass) ==
    LET new_total_mass == RAdd(n.total_mass, mass)
    IN [n EXCEPT
          !.center_of_mass =
              IF RLt(RZero, new_total_mass)
              THEN <<RDiv(RAdd(RMul(n.center_of_mass[1], n.total_mass),
                               RMul(pos[1], mass)), new_total_mass),
                     RDiv(RAdd(RMul(n.center_of_mass[2], n.total_mass),
                               RMul(pos[2], mass)), new_total_mass)>>
              ELSE n.center_of_mass,
          !.total_mass = new_total_mass]

RECURSIVE insert(_, _, _, _, _)
RECURSIVE insert_node(_, _, _, _, _)

\* an insert that, in the two levels under the root, re-inserts the resident
\* of a split leaf with a call of insert instead of writing it over a child
insert_node_reinserting(t, p, index, pos, mass) ==
    LET n == t[p]
        n1 == aggregated(n, pos, mass)
    IN IF ~contains(n.bounds, pos[1], pos[2])
       THEN [tree |-> t, next |-> <<>>]
       ELSE IF n.children
       THEN [tree |-> [t EXCEPT ![p] = n1],
             next |-> <<Append(p, quadrant(n.bounds, pos[1], pos[2]))>>]
       ELSE IF n.particle_index # <<>>
       THEN LET old_idx == n.particle_index[1]
                old_pos == n1.center_of_mass
                old_mass == RSub(n1.total_mass, mass)
                q == quadrant(n.bounds, pos[1], pos[2])
                t2 == subdivided([t EXCEPT ![p] = [n1 EXCEPT !.particle_index = <<>>]], p)
                t3 == insert(t2, Append(p, q), index, pos, mass)
                oc == Append(p, quadrant(n.bounds, old_pos[1], old_pos[2]))
            IN [tree |->
                   IF Len(p) < 2
                   THEN insert(t3, oc, old_idx, old_pos, old_mass)
                   ELSE [t3 EXCEPT ![oc].particle_index = <<old_idx>>,
                                   ![oc].total_mass = old_mass,
                                   ![oc].center_of_mass = old_pos],
                 next |-> <<>>]
       ELSE [tree |-> [t EXCEPT ![p] = [n1 EXCEPT !.particle_index = <<index>>]],
             next |-> <<>>]
\* an insert whose leaf split leaves the resident index on the node it
\* subdivides (no take() of particle_index)
insert_node_keeping_index(t, p, index, pos, mass) ==
    LET n == t[p]
        n1 == aggregated(n, pos, mass)
    IN IF ~contains(n.bounds, pos[1], pos[2])
       THEN [tree |-> t, next |-> <<>>]
       ELSE IF n.children
       THEN [tree |-> [t EXCEPT ![p] = n1],
             next |-> <<Append(p, quadrant(n.bounds, pos[1], pos[2]))>>]
       ELSE IF n.particle_index # <<>>
       THEN LET old_idx == n.particle_index[1]
                old_pos == n1.center_of_mass
                old_mass == RSub(n1.total_mass, mass)
                q == quadrant(n.bounds, pos[1], pos[2])
                t2 == subdivided([t EXCEPT ![p] = n1], p)
                t3 == insert(t2, Append(p, q), index, pos, mass)
                oc == Append(p, quadrant(n.bounds, old_pos[1], old_pos[2]))
            IN [tree |-> [t3 EXCEPT ![oc].particle_index = <<old_idx>>,
                                    ![oc].total_mass = old_mass,
                                    ![oc].center_of_mass = old_pos],
                 next |-> <<>>]
       ELSE [tree |-> [t EXCEPT ![p] = [n1 EXCEPT !.particle_index = <<index>>]],
             next |-> <<>>]
\* barnes_hut.rs 102-161: one call of insert on the node at path p.  The call
\* of line 120 is the last thing the caller does: it is returned as `next`
\* (<<path>>, or <<>> when this call returns); the call of line 144 is made
\* here.
insert_node(t, p, index, pos, mass) ==
    LET n == t[p]
        n1 == aggregated(n, pos, mass)
    IN IF ~contains(n.bounds, pos[1], pos[2])
       THEN [tree |-> t, next |-> <<>>]
       ELSE IF n.children
       THEN [tree |-> [t EXCEPT ![p] = n1],
             next |-> <<Append(p, quadrant(n.bounds, pos[1], pos[2]))>>]
       ELSE IF n.particle_index # <<>>
       THEN LET old_idx == n.particle_index[1]
                old_pos == n1.center_of_mass
                old_mass == RSub(n1.total_mass, mass)
                new_total_mass == n1.total_mass
                q == quadrant(n.bounds, pos[1], pos[2])
                t2 == subdivided([t EXCEPT ![p] = [n1 EXCEPT !.particle_index = <<>>]], p)
                t3 == insert(t2, Append(p, q), index, pos, mass)
                old_quadrant == quadrant(n.bounds, old_pos[1], old_pos[2])
                oc == Append(p, old_quadrant)
                t4 == [t3 EXCEPT ![oc].particle_index = <<old_idx>>,
                                 ![oc].total_mass = old_mass,
                                 ![oc].center_of_mass = old_pos]
            IN [tree |->
                   [t4 EXCEPT
                      ![p].total_mass = new_total_mass,
                      ![p].center_of_mass =
                          <<RDiv(RAdd(RMul(old_pos[1], old_mass), RMul(pos[1], mass)),
                                 new_total_mass),
                            RDiv(RAdd(RMul(old_pos[2], old_mass), RMul(pos[2], mass)),
                                 new_total_mass)>>],
                 next |-> <<>>]
       ELSE [tree |-> [t EXCEPT ![p] = [n1 EXCEPT !.particle_index = <<index>>]],
             next |-> <<>>]

\* barnes_hut.rs 102-161: insert, with the calls it makes
insert(t, p, index, pos, mass) ==
    LET r == insert_node(t, p, index, pos, mass)
    IN IF r.next = <<>> THEN r.tree
       ELSE insert(r.tree, r.next[1], index, pos, mass)

RECURSIVE insert_first(_, _, _)
\* barnes_hut.rs 94-96: the first n particles inserted in order
insert_first(t, parts, n) ==
    IF n = 0 THEN t
    ELSE insert(insert_first(t, parts, n - 1), <<>>, n,
                parts[n].position_vector, parts[n].mass)

\* barnes_hut.rs 91-99
build(parts, bounds) == insert_first(<<>> :> empty(bounds), parts, Len(parts))

RECURSIVE min_coordinate(_, _, _)
min_coordinate(parts, c, n) ==
    IF n = 1 THEN parts[1].position_vector[c]
    ELSE RMin(min_coordinate(parts, c, n - 1), parts[n].position_vector[c])

RECURSIVE max_coordinate(_, _, _)
max_coordinate(parts, c, n) ==
    IF n = 1 THEN parts[1].position_vector[c]
    ELSE RMax(max_coordinate(parts, c, n - 1), parts[n].position_vector[c])

padding == 10

\* the bounding box made square but not padded
build_tree_bounds_unpadded(parts) ==
    IF parts = <<>> THEN Bounds_new(RZero, RZero, RInt(1), RInt(1))
    ELSE LET min_x == min_coordinate(parts, 1, Len(parts))
             min_y == min_coordinate(parts, 2, Len(parts))
             width == RSub(max_coordinate(parts, 1, Len(parts)), min_x)
             height == RSub(max_coordinate(parts, 2, Len(parts)), min_y)
             size == RMax(width, height)
         IN Bounds_new(min_x, min_y, size, size)

\* barnes_hut.rs 236-264: the root bounds build_tree gives to build
build_tree_bounds(parts) ==
    IF parts = <<>> THEN Bounds_new(RZero, RZero, RInt(1), RInt(1))
    ELSE LET min_x == RSub(min_coordinate(parts, 1, Len(parts)), RInt(padding))
             min_y == RSub(min_coordinate(parts, 2, Len(parts)), RInt(padding))
             max_x == RAdd(max_coordinate(parts, 1, Len(parts)), RInt(padding))
             max_y == RAdd(max_coordinate(parts, 2, Len(parts)), RInt(padding))
             width == RSub(max_x, min_x)
             height == RSub(max_y, min_y)
             size == RMax(width, height)
         IN Bounds_new(min_x, min_y, size, size)

RECURSIVE calculate_force(_, _, _, _, _)
\* barnes_hut.rs 179-231.  The force is kept as the bag of the point sources
\* summed, [mass, dx, dy]: each stands for the term
\* (dx, dy) * mass * g / ((dx^2 + dy^2 + softening_sq)^(3/2)).
calculate_force(t, p, pos, theta, skip_index) ==
    LET n == t[p]
        dx == RSub(n.center_of_mass[1], pos[1])
        dy == RSub(n.center_of_mass[2], pos[2])
        dist_sq == RAdd(RMul(dx, dx), RMul(dy, dy))
        width == RMax(n.bounds.width, n.bounds.height)
        is_leaf == ~n.children
        is_far_enough == RLt(RMul(width, width), RMul(RMul(theta, theta), dist_sq))
    IN IF n.total_mass = RZero THEN EmptyBag
       ELSE IF n.particle_index = <<skip_index>> THEN EmptyBag
       ELSE IF is_leaf \/ is_far_enough
       THEN SetToBag({[mass |-> n.total_mass, dx |-> dx, dy |-> dy]})
       ELSE calculate_force(t, Append(p, 0), pos, theta, skip_index)
            (+) calculate_force(t, Append(p, 1), pos, theta, skip_index)
            (+) calculate_force(t, Append(p, 2), pos, theta, skip_index)
            (+) calculate_force(t, Append(p, 3), pos, theta, skip_index)

(***************************************************************************)
(* State of a PhysicsSpace and of tick() in progress.                      *)
(***************************************************************************)
VARIABLES
    elements,                \* PhysicsSpace.elements
    gravitational_constant,  \* PhysicsSpace.gravitational_constant
    radius,                  \* PhysicsSpace.radius
    epsilon,                 \* PhysicsSpace.epsilon
    pc,                      \* position inside tick(), "idle" between ticks
    local,                   \* tick's local clone `elements`
    i,                       \* index of tick's for loop
    j,                       \* index of checkMerge's for loop
    ticks                    \* number of ticks completed

physVars == <<elements, gravitational_constant, radius, epsilon, pc, local, i, j, ticks>>

(***************************************************************************)
(* State of a QuadTree under construction and of the queries made of it.   *)
(***************************************************************************)
VARIABLES
    particles,    \* the slice of particles given to build / build_tree
    tree,         \* the QuadTree
    tpc,          \* "new", "build" (the loop of build), "insert", "built"
    via,          \* "build_tree" or "build": who chose the root bounds
    next,         \* the index of build's loop
    path,         \* the node the insert in progress has reached
    theta,        \* calculate_force: the opening angle of the last query
    skip_index,   \* calculate_force: the particle the last query was for
    force         \* calculate_force: the result of the last query

treeVars == <<particles, tree, tpc, via, next, path, theta, skip_index, force>>

(***************************************************************************)
(* State of one descent of insert through f32 Bounds.                      *)
(***************************************************************************)
VARIABLES
    rect,     \* the Bounds of the node insert is at
    point,    \* the position inserted
    quad,     \* the result of Bounds::quadrant
    child,    \* the result of Bounds::subdivide
    bpc       \* "given", "quadrant", "subdivided"

boundsVars == <<rect, point, quad, child, bpc>>

vars == <<physVars, treeVars, boundsVars>>

\* no descent is followed
NoBounds ==
    /\ rect = Bounds_new(0, 0, 0, 0)
    /\ point = <<0, 0>>
    /\ quad = 0
    /\ child = Bounds_new(0, 0, 0, 0)
    /\ bpc = "none"

\* no tree is in use
NoTree ==
    /\ particles = <<>>
    /\ tree = <<>>
    /\ tpc = "none"
    /\ via = "none"
    /\ next = 0
    /\ path = <<>>
    /\ theta = RZero
    /\ skip_index = 0
    /\ force = EmptyBag

\* particles as callers construct them (lib.rs 98-104)
InitObjects ==
    { PhysicsObject_new(<<0, 0>>, <<0, 0>>, KOne),
      PhysicsObject_new(<<KOne, 0>>, <<0, 0>>, 2 * KOne),
      PhysicsObject_new(<<0, KOne>>, <<0, 0>>, KOne),
      PhysicsObject_new(<<3 * KOne, 0>>, <<KOne, 0>>, KOne),
      PhysicsObject_new(<<4 * KOne, 0>>, <<0, 0>>, KOne),
      PhysicsObject_new(<<2 * KOne, 2 * KOne>>, <<0 - KOne, 0>>, 2 * KOne) }

RadiusSet == {3 * KOne, 5 * KOne}

EpsilonSet == {KOne + KInv(KAdd(KOne, KOne))}

SeqsUpTo(S, n) == UNION {[1..m -> S] : m \in 0..n}

\* physics.rs 112-127: PhysicsSpace::new
InitPhysics ==
    /\ elements \in SeqsUpTo(InitObjects, MaxElements)
    /\ gravitational_constant = KOne
    /\ radius \in RadiusSet
    /\ epsilon \in EpsilonSet
    /\ pc = "idle"
    /\ local = <<>>
    /\ i = 0
    /\ j = 0
    /\ ticks = 0
    /\ NoTree
    /\ NoBounds

\* physics.rs 248-251: tick() entered, the array cloned
TickBegin ==
    /\ pc = "idle"
    /\ ticks < MaxTicks
    /\ local' = elements
    /\ i' = 1
    /\ pc' = "for_i"
    /\ UNCHANGED <<elements, gravitational_constant, radius, epsilon, j, ticks>>
    /\ UNCHANGED <<treeVars, boundsVars>>

\* physics.rs 253-274: one iteration of `for i`, up to the call of checkMerge
ForI ==
    /\ pc = "for_i"
    /\ IF i > Len(local)
       THEN /\ pc' = "retain"
            /\ UNCHANGED <<local, i, j>>
       ELSE CASE local[i].status.kind = "Default" ->
                   IF too_far(local[i], radius)
                   THEN /\ local' = [local EXCEPT ![i].status = Deleted]
                        /\ i' = i + 1
                        /\ UNCHANGED <<pc, j>>
                   ELSE /\ pc' = "checkMerge"
                        /\ j' = i + 1
                        /\ UNCHANGED <<local, i>>
              [] local[i].status.kind = "MergedInto" ->
                   /\ pc' = "checkMerge"
                   /\ j' = i + 1
                   /\ UNCHANGED <<local, i>>
              [] OTHER ->
                   /\ i' = i + 1
                   /\ UNCHANGED <<pc, local, j>>
    /\ UNCHANGED <<elements, gravitational_constant, radius, epsilon, ticks>>
    /\ UNCHANGED <<treeVars, boundsVars>>

\* physics.rs 285-314: one iteration of checkMerge's `for j in i+1..phys.elements.len()`
CheckMergeStep ==
    /\ pc = "checkMerge"
    /\ IF j > Len(elements)
       THEN /\ pc' = "for_i"
            /\ i' = i + 1
            /\ UNCHANGED <<local, j>>
       ELSE /\ local' = checkMerge_body(local, epsilon, i, j)
            /\ j' = j + 1
            /\ UNCHANGED <<pc, i>>
    /\ UNCHANGED <<elements, gravitational_constant, radius, epsilon, ticks>>
    /\ UNCHANGED <<treeVars, boundsVars>>

\* physics.rs 283
Retain ==
    /\ pc = "retain"
    /\ local' = retain(local)
    /\ pc' = "commit"
    /\ UNCHANGED <<elements, gravitational_constant, radius, epsilon, i, j, ticks>>
    /\ UNCHANGED <<treeVars, boundsVars>>

\* physics.rs 316: self.elements = elements
Commit ==
    /\ pc = "commit"
    /\ elements' = local
    /\ pc' = "integrate"
    /\ UNCHANGED <<gravitational_constant, radius, epsilon, local, i, j, ticks>>
    /\ UNCHANGED <<treeVars, boundsVars>>

\* physics.rs 317-321: the integration, and tick() returns
Integrate ==
    /\ pc = "integrate"
    /\ elements' = integrate_all(elements, gravitational_constant)
    /\ pc' = "idle"
    /\ ticks' = ticks + 1
    /\ UNCHANGED <<gravitational_constant, radius, epsilon, local, i, j>>
    /\ UNCHANGED <<treeVars, boundsVars>>

NextPhysics ==
    \/ TickBegin
    \/ ForI
    \/ CheckMergeStep
    \/ Retain
    \/ Commit
    \/ Integrate

SpecPhysics == InitPhysics /\ [][NextPhysics]_vars


(***************************************************************************)
(* Building a tree and querying it.                                        *)
(***************************************************************************)
Particle(x, y, mass) ==
    [position_vector |-> <<RInt(x), RInt(y)>>, mass |-> RInt(mass)]

\* the particles callers build trees from
TreeObjects ==
    { Particle(0, 0, 1), Particle(3, 3, 1), Particle(1, 2, 2),
      Particle(3, 0, 1), Particle(0, 0, 2), Particle(4, 1, 1) }

\* root bounds a caller of build may choose
GivenBounds == {Bounds_new(RZero, RZero, RInt(4), RInt(4))}

ThetaSet == {RZero, RHalf, RInt(1)}

\* no simulation is in use
NoPhysics ==
    /\ elements = <<>>
    /\ gravitational_constant = KOne
    /\ radius = KZero
    /\ epsilon = KZero
    /\ pc = "none"
    /\ local = <<>>
    /\ i = 0
    /\ j = 0
    /\ ticks = 0

InitTree ==
    /\ particles \in SeqsUpTo(TreeObjects, MaxParticles)
    /\ tree = <<>>
    /\ tpc = "new"
    /\ via = "none"
    /\ next = 0
    /\ path = <<>>
    /\ theta = RZero
    /\ skip_index = 0
    /\ force = EmptyBag
    /\ NoPhysics
    /\ NoBounds

\* barnes_hut.rs 235-265: build_tree, up to the loop of build
BuildTreeBegin ==
    /\ tpc = "new"
    /\ via' = "build_tree"
    /\ tree' = <<>> :> empty(build_tree_bounds(particles))
    /\ next' = 1
    /\ tpc' = "build"
    /\ UNCHANGED <<particles, path, theta, skip_index, force>>
    /\ UNCHANGED <<physVars, boundsVars>>

\* barnes_hut.rs 91-92: build with bounds of the caller's choice
BuildBegin ==
    /\ tpc = "new"
    /\ via' = "build"
    /\ \E b \in GivenBounds : tree' = <<>> :> empty(b)
    /\ next' = 1
    /\ tpc' = "build"
    /\ UNCHANGED <<particles, path, theta, skip_index, force>>
    /\ UNCHANGED <<physVars, boundsVars>>

\* barnes_hut.rs 94-98: the loop of build calls insert on the root, or ends
BuildLoop ==
    /\ tpc = "build"
    /\ IF next > Len(particles)
       THEN /\ tpc' = "built"
            /\ UNCHANGED path
       ELSE /\ tpc' = "insert"
            /\ path' = <<>>
    /\ UNCHANGED <<particles, tree, via, next, theta, skip_index, force>>
    /\ UNCHANGED <<physVars, boundsVars>>

\* barnes_hut.rs 102-161: the insert in progress runs on the node it reached
InsertStep ==
    /\ tpc = "insert"
    /\ LET r == insert_node(tree, path, next, particles[next].position_vector,
                            particles[next].mass)
       IN /\ tree' = r.tree
          /\ IF r.next = <<>>
             THEN /\ tpc' = "build"
                  /\ next' = next + 1
                  /\ path' = <<>>
             ELSE /\ path' = r.next[1]
                  /\ UNCHANGED <<tpc, next>>
    /\ UNCHANGED <<particles, via, theta, skip_index, force>>
    /\ UNCHANGED <<physVars, boundsVars>>

\* barnes_hut.rs 179-231: the force on one of the particles of the tree
CalculateForce ==
    /\ tpc = "built"
    /\ \E k \in 1..Len(particles), th \in ThetaSet :
          /\ skip_index' = k
          /\ theta' = th
          /\ force' = calculate_force(tree, <<>>, particles[k].position_vector, th, k)
    /\ UNCHANGED <<particles, tree, tpc, via, next, path>>
    /\ UNCHANGED <<physVars, boundsVars>>

NextTree ==
    \/ BuildTreeBegin
    \/ BuildBegin
    \/ BuildLoop
    \/ InsertStep
    \/ CalculateForce

SpecTree == InitTree /\ [][NextTree]_vars

(***************************************************************************)
(* One descent of insert through f32 Bounds.                               *)
(***************************************************************************)
\* left and bottom edges: 0, where every sum below is exact, and 1.0
F32Origins == {0, F32One}

\* widths and heights, in multiples of 2^-26
F32Extents == {4, 6, 16}

\* distances of a coordinate of the point from the edge
F32Offsets == {0, 2, 3, 8}

\* Bounds::new and the position given to insert: any floats
InitBounds ==
    /\ rect \in {Bounds_new(x, y, w, h) :
                    x \in F32Origins, y \in F32Origins,
                    w \in F32Extents, h \in F32Extents}
    /\ point \in {pt \in {<<x + dx, y + dy>> :
                             x \in F32Origins, y \in F32Origins,
                             dx \in F32Offsets, dy \in F32Offsets} :
                     fl(pt[1]) = pt[1] /\ fl(pt[2]) = pt[2]}
    /\ quad = 0
    /\ child = Bounds_new(0, 0, 0, 0)
    /\ bpc = "given"
    /\ NoPhysics
    /\ NoTree

\* barnes_hut.rs 104-106, 119: insert goes on when the bounds hold the
\* position, and asks for its quadrant
Quadrant ==
    /\ bpc = "given"
    /\ contains_f32(rect, point[1], point[2])
    /\ quad' = quadrant_f32(rect, point[1], point[2])
    /\ bpc' = "quadrant"
    /\ UNCHANGED <<rect, point, child>>
    /\ UNCHANGED <<physVars, treeVars>>

\* barnes_hut.rs 164-171: the bounds of the child of that quadrant
Subdivide ==
    /\ bpc = "quadrant"
    /\ child' = subdivide_f32(rect, quad)
    /\ bpc' = "subdivided"
    /\ UNCHANGED <<rect, point, quad>>
    /\ UNCHANGED <<physVars, treeVars>>

\* barnes_hut.rs 120, 104: the call of insert on the child goes on when the
\* child's bounds hold the position (followed while halving stays exact)
Descend ==
    /\ bpc = "subdivided"
    /\ contains_f32(child, point[1], point[2])
    /\ child.width % 2 = 0
    /\ child.height % 2 = 0
    /\ rect' = child
    /\ bpc' = "given"
    /\ UNCHANGED <<point, quad, child>>
    /\ UNCHANGED <<physVars, treeVars>>

NextBounds ==
    \/ Quadrant
    \/ Subdivide
    \/ Descend

SpecBounds == InitBounds /\ [][NextBounds]_vars

(***************************************************************************)
(* Properties of tick() (direct mode).                                     *)
(***************************************************************************)
RECURSIVE SumMass(_)
SumMass(elems) ==
    IF elems = <<>> THEN 0 ELSE elems[1].mass + SumMass(Tail(elems))

LiveOf(elems) == SelectSeq(elems, LAMBDA e : e.status.kind = "Default")

NoneDeleted(elems) == \A k \in 1..Len(elems) : elems[k].status.kind # "Deleted"

BeyondRadius(obj) ==
    LET x == obj.position_vector[1]
        y == obj.position_vector[2]
    IN KPowHalf(KMul(x, x) + KMul(y, y)) > radius

\* C1: when the merge-resolution pass of a tick ends and the radius cutoff has
\* removed nothing, the masses of the particles still Default add up to the
\* masses of all the particles the tick started with.
C1_MergeConservation ==
    (pc = "retain" /\ NoneDeleted(local))
        => SumMass(LiveOf(local)) = SumMass(elements)

\* C4 as stated: after tick() has returned no particle of the live array is
\* strictly farther from the origin than the removal radius.
C4_NoneBeyondRadiusAfterTick ==
    (pc = "idle" /\ ticks > 0)
        => \A k \in 1..Len(elements) : ~BeyondRadius(elements[k])

\* C4 as amended: a particle that is strictly farther than the radius from the
\* origin when tick() starts is not Default when the pass ends, and retain
\* keeps at most as many particles as started within the radius.
C4_BeyondRadiusAtStartIsDropped ==
    /\ pc = "retain" =>
          \A k \in 1..Len(elements) :
              BeyondRadius(elements[k]) => local[k].status.kind # "Default"
    /\ pc = "commit" =>
          Len(local) <= Cardinality({k \in 1..Len(elements) : ~BeyondRadius(elements[k])})

C4_Witness ==
    /\ pc = "commit"
    /\ \E k \in 1..Len(elements) : BeyondRadius(elements[k])
    /\ Len(local) > 0
    /\ Len(local) < Len(elements)

AllDefault(elems) == \A k \in 1..Len(elems) : elems[k].status.kind = "Default"

\* C5: the live array holds only Default particles, at every step, and no step
\* of tick() makes it longer.
C5_CompactedAndNeverLonger ==
    [][/\ AllDefault(elements)
       /\ AllDefault(elements')
       /\ Len(elements') <= Len(elements)]_physVars

\* a tick has returned that merged or deleted something: i - 1 is the length
\* the array had when that tick began
C5_Witness ==
    /\ pc = "idle"
    /\ ticks > 0
    /\ Len(elements) > 0
    /\ Len(elements) < i - 1

RECURSIVE SumVectors(_, _)
\* the sum of term[n] over the indices n of the set S
SumVectors(S, term) ==
    IF S = {} THEN <<0, 0>>
    ELSE LET n == CHOOSE x \in S : TRUE
             rest == SumVectors(S \ {n}, term)
         IN <<rest[1] + term[n][1], rest[2] + term[n][2]>>

Dist(p, q) ==
    KPowHalf(KMul(q[1] - p[1], q[1] - p[1]) + KMul(q[2] - p[2], q[2] - p[2]))

\* (dx,dy) G m / (r2 sqrt(r2)) with r2 = d^2 + eps^2
SoftenedTerm(g, eps, source, at) ==
    LET d == Dist(source.position_vector, at)
        r2 == KMul(d, d) + KMul(eps, eps)
        factor == KMul(KMul(source.mass, g), KInv(KMul(r2, KPowHalf(r2))))
    IN <<KMul(factor, source.position_vector[1] - at[1]),
         KMul(factor, source.position_vector[2] - at[2])>>

\* (dx,dy)/d G m / d^2
NewtonTerm(g, source, at) ==
    LET d == Dist(source.position_vector, at)
        factor == KMul(KMul(source.mass, g), KInv(KMul(d, d)))
    IN <<KMul(factor, KMul(KInv(d), source.position_vector[1] - at[1])),
         KMul(factor, KMul(KInv(d), source.position_vector[2] - at[2]))>>

\* the particles of the frozen array that are at neither the new nor the old
\* position of the particle being integrated
Contributors(elems, new_pos, old_pos) ==
    {n \in 1..Len(elems) :
        /\ Dist(elems[n].position_vector, new_pos) # 0
        /\ Dist(elems[n].position_vector, old_pos) # 0}

C12_FlattenedMergeChains ==
    \A b \in 1..Len(local) :
        local[b].status.kind = "MergedInto" =>
            /\ local[b].status.into \in 1..(b - 1)
            /\ local[local[b].status.into].status = Default

\* checkMerge runs for a particle that is itself merged, and has just merged
\* the particle before j into the target of particle i
C12_Witness ==
    /\ pc = "checkMerge"
    /\ local[i].status.kind = "MergedInto"
    /\ j > i + 1
    /\ Dist(local[i].position_vector, local[j - 1].position_vector) < epsilon
    /\ local[j - 1].status.kind = "MergedInto"
    /\ local[j - 1].status.into = local[i].status.into

(***************************************************************************)
(* Properties of the quadtree.                                             *)
(***************************************************************************)
RECURSIVE RSum(_, _)
\* the sum of the rationals f[k] over the k of the set S
RSum(S, f) ==
    IF S = {} THEN RZero
    ELSE LET k == CHOOSE x \in S : TRUE
         IN RAdd(f[k], RSum(S \ {k}, f))

IsPrefix(p, c) == Len(p) <= Len(c) /\ SubSeq(c, 1, Len(p)) = p

Root == tree[<<>>]

\* the particles build has inserted so far
Inserted == 1..(next - 1)

BetweenInserts == tpc \in {"build", "built"}

InRoot(k) ==
    contains(Root.bounds, particles[k].position_vector[1], particles[k].position_vector[2])

DistinctPositions ==
    \A a, b \in 1..Len(particles) :
        a # b => particles[a].position_vector # particles[b].position_vector

MassOf == [k \in 1..Len(particles) |-> particles[k].mass]

\* the masses of the particles resident in the leaves under the node at p
ResidentMass(p) ==
    RSum({tree[c].particle_index[1] :
             c \in {d \in DOMAIN tree : IsPrefix(p, d) /\ tree[d].particle_index # <<>>}},
         MassOf)

ChildrenMass(p) ==
    RSum(Quadrants, [q \in Quadrants |-> tree[Append(p, q)].total_mass])

\* C2: in a tree built by build_tree from particles at pairwise distinct
\* positions, the total mass of every node is the mass of the particles
\* resident in the leaves under it, and that of an internal node is the sum of
\* the total masses of its four children.
C2_TreeMassConservation ==
    (tpc = "built" /\ via = "build_tree" /\ DistinctPositions)
        => \A p \in DOMAIN tree :
              /\ tree[p].total_mass = ResidentMass(p)
              /\ tree[p].children => tree[p].total_mass = ChildrenMass(p)

\* the particles inserted so far whose true position lies in the bounds b
InRegion(b) ==
    {k \in Inserted :
        InRoot(k) /\ contains(b, particles[k].position_vector[1],
                                 particles[k].position_vector[2])}

WeightedAverage(S) ==
    LET m == RSum(S, MassOf)
    IN <<RDiv(RSum(S, [k \in 1..Len(particles) |->
                          RMul(particles[k].mass, particles[k].position_vector[1])]), m),
         RDiv(RSum(S, [k \in 1..Len(particles) |->
                          RMul(particles[k].mass, particles[k].position_vector[2])]), m)>>

\* C3: between insert calls, all of them of positions inside the root bounds,
\* every node of nonzero total mass has for centre of mass the mass-weighted
\* average of the true positions of the inserted particles that lie in its
\* region.
C3_CenterOfMass ==
    (BetweenInserts /\ \A k \in Inserted : InRoot(k))
        => \A p \in DOMAIN tree :
              tree[p].total_mass # RZero =>
                  /\ InRegion(tree[p].bounds) # {}
                  /\ tree[p].center_of_mass = WeightedAverage(InRegion(tree[p].bounds))

Orders(n) ==
    {f \in [1..n -> 1..n] : \A a, b \in 1..n : a # b => f[a] # f[b]}

\* C7: whatever the order in which the same in-bounds particles (at pairwise
\* distinct positions) are inserted
\* in a tree over the same root bounds, the root has the same total mass and
\* the same centre of mass.
C7_OrderIndependentAggregates ==
    (tpc = "built" /\ DistinctPositions /\ \A k \in 1..Len(particles) : InRoot(k))
        => \A f \in Orders(Len(particles)) :
              LET other == build([k \in 1..Len(particles) |-> particles[f[k]]],
                                 Root.bounds)[<<>>]
              IN /\ other.total_mass = Root.total_mass
                 /\ other.center_of_mass = Root.center_of_mass

RECURSIVE DirectSources(_, _, _)
\* the point sources of the direct pairwise sum on particle k: each of the
\* first n particles but k, with its own mass and position
DirectSources(parts, k, n) ==
    IF n = 0 THEN EmptyBag
    ELSE DirectSources(parts, k, n - 1)
         (+) (IF n = k THEN EmptyBag
              ELSE SetToBag({[mass |-> parts[n].mass,
                              dx |-> RSub(parts[n].position_vector[1],
                                          parts[k].position_vector[1]),
                              dy |-> RSub(parts[n].position_vector[2],
                                          parts[k].position_vector[2])]}))

\* C8: with theta = 0 the force calculate_force returns for particle k on the
\* tree build_tree built (from particles at pairwise distinct positions) sums exactly the point sources of the direct pairwise
\* sum: every other particle once, with its mass, at its position.
C8_ThetaZeroIsDirectSum ==
    (tpc = "built" /\ via = "build_tree" /\ DistinctPositions
        /\ skip_index # 0 /\ theta = RZero)
        => force = DirectSources(particles, skip_index, Len(particles))

Coincident(a, b) ==
    /\ Len(particles) >= b
    /\ particles[a].position_vector = particles[b].position_vector

LandsInOccupiedLeaf ==
    /\ tpc = "insert"
    /\ contains(tree[path].bounds, particles[next].position_vector[1],
                                   particles[next].position_vector[2])
    /\ ~tree[path].children
    /\ tree[path].particle_index # <<>>

\* the paths under the child q of the node at p, in the tree t
Under(t, p, q) == {c \in DOMAIN t : IsPrefix(Append(p, q), c)}

\* C11: when insert lands a second particle (at another position) in an
\* occupied leaf, the leaf gets four children, the new index is resident under
\* the child for the quadrant of the new position, and the resident index is
\* resident under the child for the quadrant of the leaf's centre of mass as
\* it was before this insertion, at that position and with the mass the leaf
\* had.
C11_LeafSplitPlacement ==
    [][(LandsInOccupiedLeaf /\ DistinctPositions)
         => LET n == tree[path]
                pos == particles[next].position_vector
                q_new == quadrant(n.bounds, pos[1], pos[2])
                q_old == quadrant(n.bounds, n.center_of_mass[1], n.center_of_mass[2])
            IN /\ tree'[path].children
               /\ tree'[path].particle_index = <<>>
               /\ \A q \in Quadrants : Append(path, q) \in DOMAIN tree'
               /\ \E c \in Under(tree', path, q_new) :
                     tree'[c].particle_index = <<next>>
               /\ \E c \in Under(tree', path, q_old) :
                     /\ tree'[c].particle_index = n.particle_index
                     /\ tree'[c].center_of_mass = n.center_of_mass
                     /\ tree'[c].total_mass = n.total_mass]_vars

\* every node of t is internal (four children, no resident) or a leaf (no
\* child, at most one resident)
NodeShape(t) ==
    \A p \in DOMAIN t :
        IF t[p].children
        THEN /\ t[p].particle_index = <<>>
             /\ \A q \in Quadrants : Append(p, q) \in DOMAIN t
        ELSE /\ Len(t[p].particle_index) <= 1
             /\ \A c \in DOMAIN t : ~(IsPrefix(p, c) /\ c # p)

\* C13: every step of an insert takes a tree whose nodes are all internal or
\* leaf to such a tree; it keeps every node, keeps internal every node that
\* was internal, and keeps positive every total mass that was positive.
C13_NodeShapeAndLifecycle ==
    [][/\ NodeShape(tree)
       /\ NodeShape(tree')
       /\ \A p \in DOMAIN tree :
             /\ p \in DOMAIN tree'
             /\ tree[p].children => tree'[p].children
             /\ RLt(RZero, tree[p].total_mass) => RLt(RZero, tree'[p].total_mass)]_vars

\* a leaf under the root that held a particle has been subdivided in its turn
C13_Witness ==
    /\ tpc = "built"
    /\ DistinctPositions
    /\ \E p \in DOMAIN tree :
          /\ p # <<>>
          /\ tree[p].children
          /\ \E q \in Quadrants : tree[Append(p, q)].particle_index # <<>>

(***************************************************************************)
(* Properties of Bounds.                                                   *)
(***************************************************************************)
\* C14: when a Bounds holds a point, the sub-region of the quadrant of the
\* point holds it and no other of the four sub-regions does; a point on a
\* centre line is classified east or north.
C14_QuadrantSubdivideTiling ==
    (bpc = "subdivided" /\ contains_f32(rect, point[1], point[2]))
        => /\ contains_f32(child, point[1], point[2])
           /\ \A q \in Quadrants \ {quad} :
                 ~contains_f32(subdivide_f32(rect, q), point[1], point[2])
           /\ point[1] = center_x_f32(rect) => quad \in {1, 3}
           /\ point[2] = center_y_f32(rect) => quad \in {0, 1}

(***************************************************************************)
(* Properties of the integration step of tick().                           *)
(***************************************************************************)
RECURSIVE IntegratedInOrder(_, _)
\* the array after the first n particles of the order were integrated, each
\* from its own state and the array as it was before the integration
IntegratedInOrder(order, n) ==
    IF n = 0 THEN elements
    ELSE [IntegratedInOrder(order, n - 1) EXCEPT
            ![order[n]] = leapfrog_integration(elements, gravitational_constant,
                                               elements[order[n]])]

\* C15: the integration step commits, for whatever order the particles are
\* integrated in, the array in which each particle is integrated from its own
\* state and the array as committed after the merge pass; it keeps the length
\* of the array and every particle's mass and status.
C15_IntegrationOrderIndependent ==
    [][pc = "integrate"
         => /\ Len(elements') = Len(elements)
            /\ \A order \in Orders(Len(elements)) :
                  elements' = IntegratedInOrder(order, Len(elements))
            /\ \A k \in 1..Len(elements) :
                  /\ elements'[k].mass = elements[k].mass
                  /\ elements'[k].status = elements[k].status]_physVars

\* a tick has integrated two particles that pull on each other
C15_Witness ==
    /\ pc = "idle"
    /\ ticks > 0
    /\ \E a, b \in 1..Len(elements) :
          /\ a # b
          /\ elements[a].acceleration_vector # <<0, 0>>
          /\ elements[b].acceleration_vector # <<0, 0>>

=============================================================================
